---- MODULE Spec2Model ----
(***************************************************************************)
(* Model of fetch_census_data.py: one run of main() as a state machine     *)
(* (read input, HTTP query, parse, calculate_metrics, merge, warning,      *)
(* summary, write, data quality checks, exit), and calculate_metrics as a  *)
(* pure function over raw B18105 rows.                                     *)
(*                                                                         *)
(* Numbers.  A pandas numeric cell is a record [k, v]: k = "num" with the  *)
(* integer v, or k = "nan", "inf", "ninf" (v = 0).  Percentages are held   *)
(* in hundredths of a percent (15.00 is 1500), so that round(2) is an      *)
(* integer rounding and "> 100" is "> 10000".                              *)
(* Strings.  A GEOID is a sequence of digits; an API cell is a sequence of *)
(* one-character strings.                                                  *)
(***************************************************************************)
EXTENDS Integers, Sequences, FiniteSets, TLC

----------------------------------------------------------------------------
(* Bounds of the explored inputs *)

\* raw values of the pure-function inputs range over 0..MaxVal and NaN
MaxVal == 3
\* at most this many of the 15 variables of a generated raw row differ from 0
MaxNonZero == 3
\* rows of the input table
MaxTracts == 2
\* data rows of the API response
MaxApiRows == 2

----------------------------------------------------------------------------
(* pandas numeric cells *)

NaN == [k |-> "nan", v |-> 0]
PosInf == [k |-> "inf", v |-> 0]
NegInf == [k |-> "ninf", v |-> 0]
Num(n) == [k |-> "num", v |-> n]

IsNa(a) == a.k = "nan"

\* a sum that skips undefined summands, as DataFrame.sum(axis=1) would
AddSkipNa(a, b) == Num((IF IsNa(a) THEN 0 ELSE a.v) + (IF IsNa(b) THEN 0 ELSE b.v))

\* Series + Series: NaN propagates
Add(a, b) == IF IsNa(a) \/ IsNa(b) THEN NaN ELSE Num(a.v + b.v)

\* round half to even of num/den, den > 0 (numpy rint); an exact tie needs a
\* denominator that is a multiple of 32, beyond the sums generated here
RoundHalfEven(num, den) ==
    LET q == num \div den
        r == num % den
    IN  IF 2 * r < den THEN q
        ELSE IF 2 * r > den THEN q + 1
        ELSE IF q % 2 = 0 THEN q ELSE q + 1

\* (a / b * 100).round(2), in hundredths; float division: x/0 is +-inf, 0/0 NaN
PctRound2(a, b) ==
    IF IsNa(a) \/ IsNa(b) THEN NaN
    ELSE IF b.v = 0
         THEN (IF a.v = 0 THEN NaN ELSE IF a.v > 0 THEN PosInf ELSE NegInf)
         ELSE IF b.v > 0 THEN Num(RoundHalfEven(10000 * a.v, b.v))
              ELSE Num(RoundHalfEven(-10000 * a.v, -b.v))

\* the percentage left as computed, without the fillna(0) step
FillNa0Skipped(a) == a

\* Series.fillna(0): only NaN is replaced, an infinity is kept
FillNa0(a) == IF IsNa(a) THEN Num(0) ELSE a

\* Series > Series and Series < 0, elementwise: False on NaN
Gt(a, b) ==
    /\ ~IsNa(a) /\ ~IsNa(b)
    /\ \/ a.k = "inf" /\ b.k # "inf"
       \/ b.k = "ninf" /\ a.k # "ninf"
       \/ a.k = "num" /\ b.k = "num" /\ a.v > b.v
Lt(a, b) == Gt(b, a)

----------------------------------------------------------------------------
(* the B18105 variables *)

TotalCol == "B18105_001E"
MaleDiffCols == <<"B18105_004E", "B18105_007E", "B18105_010E", "B18105_013E", "B18105_016E">>
FemaleDiffCols == <<"B18105_020E", "B18105_023E", "B18105_026E", "B18105_029E", "B18105_032E">>
SeniorTotalCols == <<"B18105_012E", "B18105_015E", "B18105_028E", "B18105_031E">>
\* the 65+ with-condition columns of the males only
SeniorDiffColsMale == <<"B18105_013E", "B18105_016E">>
SeniorDiffCols == <<"B18105_013E", "B18105_016E", "B18105_029E", "B18105_032E">>

variables == <<TotalCol>> \o MaleDiffCols \o FemaleDiffCols \o SeniorTotalCols
Variables == {variables[i] : i \in 1..Len(variables)}

\* row[c1] + row[c2] + ... left to right
RECURSIVE SumCols(_, _)
SumCols(row, cols) ==
    IF Len(cols) = 1 THEN row.vars[cols[1]]
    ELSE Add(SumCols(row, SubSeq(cols, 1, Len(cols) - 1)), row.vars[cols[Len(cols)]])

----------------------------------------------------------------------------
(* calculate_metrics *)

MetricsRow(row) ==
    LET total_pop_5plus == row.vars[TotalCol]
        total_amb_diff == SumCols(row, MaleDiffCols \o FemaleDiffCols)
        pop_65plus == SumCols(row, SeniorTotalCols)
        pop_65plus_amb_diff == SumCols(row, SeniorDiffCols)
    IN  [GEOID |-> row.GEOID,
         total_pop_5plus |-> total_pop_5plus,
         total_amb_diff |-> total_amb_diff,
         total_amb_diff_pct |-> FillNa0(PctRound2(total_amb_diff, total_pop_5plus)),
         pop_65plus |-> pop_65plus,
         pop_65plus_amb_diff |-> pop_65plus_amb_diff,
         pop_65plus_amb_diff_pct |-> FillNa0(PctRound2(pop_65plus_amb_diff, pop_65plus))]

calculate_metrics(df) == [i \in 1..Len(df) |-> MetricsRow(df[i])]

----------------------------------------------------------------------------
(* pd.to_numeric(errors='coerce') on the API's text cells *)

DigitVal ==
    ("0" :> 0) @@ ("1" :> 1) @@ ("2" :> 2) @@ ("3" :> 3) @@ ("4" :> 4) @@
    ("5" :> 5) @@ ("6" :> 6) @@ ("7" :> 7) @@ ("8" :> 8) @@ ("9" :> 9)

IsDigits(s) == Len(s) > 0 /\ \A i \in 1..Len(s) : s[i] \in DOMAIN DigitVal

RECURSIVE DigitsValue(_)
DigitsValue(s) ==
    IF s = <<>> THEN 0
    ELSE 10 * DigitsValue(SubSeq(s, 1, Len(s) - 1)) + DigitVal[s[Len(s)]]

\* integer text becomes its number, anything else the undefined marker
to_numeric(s) ==
    IF IsDigits(s) THEN Num(DigitsValue(s))
    ELSE IF Len(s) > 1 /\ s[1] = "-" /\ IsDigits(Tail(s)) THEN Num(0 - DigitsValue(Tail(s)))
    ELSE NaN

----------------------------------------------------------------------------
(* State *)

VARIABLES
    pc,             \* the statement of main() that runs next
    tracts_df,      \* the input table
    url,            \* state and county of the query
    requests,       \* HTTP requests issued
    http_status,    \* "none", "ok" (2xx) or "error" (RequestException)
    response,       \* data rows of the JSON response
    census_df,      \* fetch_b18105_data's result
    metrics_df,     \* calculate_metrics' result
    annotated_df,   \* the merged table
    warning,        \* GEOIDs listed by the missing-data warning
    output_written, \* the annotated CSV was written
    output_file,    \* its rows
    errors,         \* the data quality error list
    exit_code,      \* -1 while running
    trace,          \* stages executed so far
    calc_pc,        \* pure-function harness: "idle", "input", "done"
    calc_df,        \* its raw frame
    calc_result     \* calculate_metrics(calc_df)

mainVars == <<pc, tracts_df, url, requests, http_status, response, census_df, metrics_df,
              annotated_df, warning, output_written, output_file, errors,
              exit_code, trace>>
calcVars == <<calc_pc, calc_df, calc_result>>
vars == <<mainVars, calcVars>>

----------------------------------------------------------------------------
(* Inputs: the input table and the API's answer *)

\* rows of generated/tracts_within_1mile.csv (GEOID read as text)
AreaPool ==
    { [GEOID |-> <<0, 6, 0, 7, 5, 0, 1, 0, 8, 0, 0>>, NAMELSAD |-> "Census Tract 108"],
      [GEOID |-> <<0, 6, 0, 7, 5, 0, 1, 0, 9, 0, 0>>, NAMELSAD |-> "Census Tract 109"] }

TractTables == UNION { [1..n -> AreaPool] : n \in 0..MaxTracts }

\* tract codes the API may answer with
ApiTracts == { <<0, 1, 0, 8, 0, 0>>, <<0, 1, 0, 9, 0, 0>> }

Txt0 == <<"0">>
Cells(over) == [c \in Variables |-> IF c \in DOMAIN over THEN over[c] ELSE Txt0]

\* universe 1000, with-condition 150, seniors 200, seniors with condition 40
ExampleCells ==
    Cells(("B18105_001E" :> <<"1", "0", "0", "0">>) @@ ("B18105_004E" :> <<"1", "1", "0">>) @@
          ("B18105_013E" :> <<"4", "0">>) @@ ("B18105_012E" :> <<"2", "0", "0">>))
\* seniors with condition 50, seniors 40
SeniorExceedsCells ==
    Cells(("B18105_001E" :> <<"1", "0", "0", "0">>) @@ ("B18105_013E" :> <<"5", "0">>) @@
          ("B18105_012E" :> <<"4", "0">>))
\* a negative estimate in the universe variable
NegativeCells == Cells("B18105_001E" :> <<"-", "1">>)
\* universe 0 with one person with the condition
ZeroUniverseCells == Cells("B18105_004E" :> <<"1">>)
\* the universe variable is not a number
UnparseableCells == Cells("B18105_001E" :> <<"N", "A">>)

ApiCells == { ExampleCells, SeniorExceedsCells, NegativeCells, ZeroUniverseCells,
              UnparseableCells }

\* data rows of the response to a query for state st, county co
ApiRows(st, co) ==
    { [state |-> st, county |-> co, tract |-> t, cells |-> c] : t \in ApiTracts, c \in ApiCells }
ApiResponses(st, co) == UNION { [1..n -> ApiRows(st, co)] : n \in 0..MaxApiRows }

----------------------------------------------------------------------------
(* DataFrame helpers *)

Range(f) == { f[i] : i \in DOMAIN f }

RECURSIVE Filter(_, _)
\* df[mask]: the rows whose GEOID is in the set, in order
Filter(df, keys) ==
    IF df = <<>> THEN <<>>
    ELSE LET rest == Filter(Tail(df), keys)
         IN  IF Head(df).GEOID \in keys THEN <<Head(df)>> \o rest ELSE rest

NullMetrics ==
    [total_pop_5plus |-> NaN, total_amb_diff |-> NaN, total_amb_diff_pct |-> NaN,
     pop_65plus |-> NaN, pop_65plus_amb_diff |-> NaN, pop_65plus_amb_diff_pct |-> NaN]

Joined(l, r) ==
    [GEOID |-> l.GEOID, NAMELSAD |-> l.NAMELSAD,
     total_pop_5plus |-> r.total_pop_5plus, total_amb_diff |-> r.total_amb_diff,
     total_amb_diff_pct |-> r.total_amb_diff_pct, pop_65plus |-> r.pop_65plus,
     pop_65plus_amb_diff |-> r.pop_65plus_amb_diff,
     pop_65plus_amb_diff_pct |-> r.pop_65plus_amb_diff_pct]

RECURSIVE Matches(_, _)
\* the right rows with the left row's key, joined to it, in right order
Matches(l, right) ==
    IF right = <<>> THEN <<>>
    ELSE (IF Head(right).GEOID = l.GEOID THEN <<Joined(l, Head(right))>> ELSE <<>>)
         \o Matches(l, Tail(right))

RECURSIVE InnerMerge(_, _)
\* the join with how='inner': unmatched left rows are dropped
InnerMerge(left, right) ==
    IF left = <<>> THEN <<>>
    ELSE Matches(Head(left), right) \o InnerMerge(Tail(left), right)

RECURSIVE LeftMerge(_, _)
\* left.merge(right, on='GEOID', how='left')
LeftMerge(left, right) ==
    IF left = <<>> THEN <<>>
    ELSE LET m == Matches(Head(left), right)
         IN  (IF m = <<>> THEN <<Joined(Head(left), NullMetrics)>> ELSE m)
             \o LeftMerge(Tail(left), right)

RECURSIVE MissingGeoids(_)
\* annotated_df[annotated_df['total_pop_5plus'].isna()]['GEOID']
MissingGeoids(df) ==
    IF df = <<>> THEN <<>>
    ELSE (IF IsNa(Head(df).total_pop_5plus) THEN <<Head(df).GEOID>> ELSE <<>>)
         \o MissingGeoids(Tail(df))

----------------------------------------------------------------------------
(* main() *)

Init ==
    /\ pc = "read"
    /\ tracts_df = <<>>
    /\ url = <<>>
    /\ requests = 0
    /\ http_status = "none"
    /\ response = <<>>
    /\ census_df = <<>>
    /\ metrics_df = <<>>
    /\ annotated_df = <<>>
    /\ warning = <<>>
    /\ output_written = FALSE
    /\ output_file = <<>>
    /\ errors = <<>>
    /\ exit_code = -1
    /\ trace = <<>>
    /\ calc_pc = "idle"
    /\ calc_df = <<>>
    /\ calc_result = <<>>

\* an uncaught exception or sys.exit(1)
Exit1 ==
    /\ pc' = "done"
    /\ exit_code' = 1

\* pd.read_csv succeeds
ReadInput ==
    /\ pc = "read"
    /\ \E t \in TractTables : tracts_df' = t
    /\ pc' = "fetch"
    /\ trace' = Append(trace, "read")
    /\ UNCHANGED <<url, requests, http_status, response, census_df, metrics_df, annotated_df,
                   warning, output_written, output_file, errors, exit_code, calcVars>>

\* pd.read_csv raises (file absent): not caught
ReadInputFails ==
    /\ pc = "read"
    /\ Exit1
    /\ UNCHANGED <<trace, tracts_df, url, requests, http_status, response, census_df, metrics_df, annotated_df,
                   warning, output_written, output_file, errors, calcVars>>

\* tract_geoids[0] on an empty table raises IndexError outside the try
FetchEmptyTable ==
    /\ pc = "fetch"
    /\ tracts_df = <<>>
    /\ Exit1
    /\ UNCHANGED <<tracts_df, url, requests, http_status, response, census_df, metrics_df, annotated_df,
                   warning, output_written, output_file, errors, trace, calcVars>>

first_geoid == tracts_df[1].GEOID
state_fips == SubSeq(first_geoid, 1, 2)
county_fips == SubSeq(first_geoid, 3, 5)

\* requests.get answers 2xx with a JSON table
HttpGetOk ==
    /\ pc = "fetch"
    /\ tracts_df # <<>>
    /\ url' = <<state_fips, county_fips>>
    /\ requests' = requests + 1
    /\ http_status' = "ok"
    /\ \E r \in ApiResponses(state_fips, county_fips) : response' = r
    /\ pc' = "parse"
    /\ trace' = Append(trace, "query")
    /\ UNCHANGED <<tracts_df, census_df, metrics_df, annotated_df, warning,
                   output_written, output_file, errors, exit_code, calcVars>>

\* the failure is reported but the run goes on with an empty table
HttpGetFailsNoExit ==
    /\ pc = "fetch"
    /\ tracts_df # <<>>
    /\ url' = <<state_fips, county_fips>>
    /\ requests' = requests + 1
    /\ http_status' = "error"
    /\ pc' = "parse"
    /\ trace' = Append(trace, "query")
    /\ UNCHANGED <<tracts_df, response, census_df, metrics_df, annotated_df, warning,
                   output_written, output_file, errors, exit_code, calcVars>>

\* requests.get or raise_for_status raises RequestException: sys.exit(1)
HttpGetFails ==
    /\ pc = "fetch"
    /\ tracts_df # <<>>
    /\ url' = <<state_fips, county_fips>>
    /\ requests' = requests + 1
    /\ http_status' = "error"
    /\ Exit1
    /\ trace' = Append(trace, "query")
    /\ UNCHANGED <<tracts_df, response, census_df, metrics_df, annotated_df, warning,
                   output_written, output_file, errors, calcVars>>

\* one response row as a typed record, GEOID = state + county + tract
TypedRow(r) ==
    [GEOID |-> r.state \o r.county \o r.tract,
     vars |-> [c \in Variables |-> to_numeric(r.cells[c])]]

\* DataFrame(rows), GEOID column, isin filter, to_numeric
ParseResponse ==
    /\ pc = "parse"
    /\ census_df' = Filter([i \in 1..Len(response) |-> TypedRow(response[i])],
                           { tracts_df[i].GEOID : i \in 1..Len(tracts_df) })
    /\ pc' = "calc"
    /\ trace' = Append(trace, "parse")
    /\ UNCHANGED <<tracts_df, url, requests, http_status, response, metrics_df, annotated_df, warning,
                   output_written, output_file, errors, exit_code, calcVars>>

CalculateMetrics ==
    /\ pc = "calc"
    /\ metrics_df' = calculate_metrics(census_df)
    /\ pc' = "merge"
    /\ trace' = Append(trace, "compute")
    /\ UNCHANGED <<tracts_df, url, requests, http_status, response, census_df, annotated_df, warning,
                   output_written, output_file, errors, exit_code, calcVars>>

Merge ==
    /\ pc = "merge"
    /\ annotated_df' = LeftMerge(tracts_df, metrics_df)
    /\ pc' = "warn"
    /\ trace' = Append(trace, "merge")
    /\ UNCHANGED <<tracts_df, url, requests, http_status, response, census_df, metrics_df, warning,
                   output_written, output_file, errors, exit_code, calcVars>>

\* the WARNING block: lists the rows whose total_pop_5plus is null
WarnMissing ==
    /\ pc = "warn"
    /\ warning' = MissingGeoids(annotated_df)
    /\ pc' = "summary"
    /\ UNCHANGED <<tracts_df, url, requests, http_status, response, census_df, metrics_df, annotated_df,
                   output_written, output_file, errors, exit_code, trace, calcVars>>

\* summary statistics and head(3) go to stdout only
ShowSummary ==
    /\ pc = "summary"
    /\ pc' = "write"
    /\ trace' = Append(trace, "summary")
    /\ UNCHANGED <<tracts_df, url, requests, http_status, response, census_df, metrics_df, annotated_df,
                   warning, output_written, output_file, errors, exit_code, calcVars>>

\* annotated_df.to_csv(output_file)
WriteOutput ==
    /\ pc = "write"
    /\ output_written' = TRUE
    /\ output_file' = annotated_df
    /\ pc' = "chk_negative"
    /\ trace' = Append(trace, "write")
    /\ UNCHANGED <<tracts_df, url, requests, http_status, response, census_df, metrics_df, annotated_df,
                   warning, errors, exit_code, calcVars>>

----------------------------------------------------------------------------
(* Data quality checks *)

\* the row labels of annotated_df; (annotated_df[...] <cond>).any() is \E over them
Rows == 1..Len(annotated_df)

NegTotalPop(r) == Lt(r.total_pop_5plus, Num(0))
NegTotalDiff(r) == Lt(r.total_amb_diff, Num(0))
NegSeniorPop(r) == Lt(r.pop_65plus, Num(0))
NegSeniorDiff(r) == Lt(r.pop_65plus_amb_diff, Num(0))
TotalDiffExceeds(r) == Gt(r.total_amb_diff, r.total_pop_5plus)
\* the comparison with its operands exchanged
SeniorDiffBelow(r) == Gt(r.pop_65plus, r.pop_65plus_amb_diff)
SeniorDiffExceeds(r) == Gt(r.pop_65plus_amb_diff, r.pop_65plus)
SeniorPopExceeds(r) == Gt(r.pop_65plus, r.total_pop_5plus)
TotalPctExceeds(r) == Gt(r.total_amb_diff_pct, Num(10000))
SeniorPctExceeds(r) == Gt(r.pop_65plus_amb_diff_pct, Num(10000))

MsgNegTotalPop == "ERROR: Negative values found in total_pop_5plus"
MsgNegTotalDiff == "ERROR: Negative values found in total_amb_diff"
MsgNegSeniorPop == "ERROR: Negative values found in pop_65plus"
MsgNegSeniorDiff == "ERROR: Negative values found in pop_65plus_amb_diff"
MsgTotalDiffExceeds == "ERROR: Total ambulatory difficulty exceeds total population"
MsgSeniorDiffExceeds == "ERROR: 65+ ambulatory difficulty exceeds 65+ population"
MsgSeniorPopExceeds == "ERROR: 65+ population exceeds total population"
MsgTotalPctExceeds == "ERROR: Total ambulatory difficulty percentage exceeds 100%"
MsgSeniorPctExceeds == "ERROR: 65+ ambulatory difficulty percentage exceeds 100%"

\* a check that is skipped once an error has been recorded
AppendIfFirst(errs, cond, msg) == IF cond /\ errs = <<>> THEN Append(errs, msg) ELSE errs

\* if cond: errors.append(msg)
AppendIf(errs, cond, msg) == IF cond THEN Append(errs, msg) ELSE errs

checkFrame == <<tracts_df, url, requests, http_status, response, census_df, metrics_df, annotated_df,
                warning, output_written, output_file, exit_code, calcVars>>

\* errors = []; for col in numeric_cols: if (annotated_df[col] < 0).any(): ...
ChkNegative ==
    /\ pc = "chk_negative"
    /\ errors' = AppendIf(AppendIf(AppendIf(AppendIf(<<>>,
                     (\E i \in Rows : NegTotalPop(annotated_df[i])), MsgNegTotalPop),
                     (\E i \in Rows : NegTotalDiff(annotated_df[i])), MsgNegTotalDiff),
                     (\E i \in Rows : NegSeniorPop(annotated_df[i])), MsgNegSeniorPop),
                     (\E i \in Rows : NegSeniorDiff(annotated_df[i])), MsgNegSeniorDiff)
    /\ pc' = "chk_total_exceeds"
    /\ trace' = Append(trace, "validate")
    /\ UNCHANGED checkFrame

ChkTotalExceeds ==
    /\ pc = "chk_total_exceeds"
    /\ errors' = AppendIf(errors, (\E i \in Rows : TotalDiffExceeds(annotated_df[i])), MsgTotalDiffExceeds)
    /\ pc' = "chk_senior_exceeds"
    /\ UNCHANGED <<checkFrame, trace>>

ChkSeniorExceeds ==
    /\ pc = "chk_senior_exceeds"
    /\ errors' = AppendIf(errors, (\E i \in Rows : SeniorDiffExceeds(annotated_df[i])), MsgSeniorDiffExceeds)
    /\ pc' = "chk_senior_pop"
    /\ UNCHANGED <<checkFrame, trace>>

ChkSeniorPop ==
    /\ pc = "chk_senior_pop"
    /\ errors' = AppendIf(errors, (\E i \in Rows : SeniorPopExceeds(annotated_df[i])), MsgSeniorPopExceeds)
    /\ pc' = "chk_total_pct"
    /\ UNCHANGED <<checkFrame, trace>>

ChkTotalPct ==
    /\ pc = "chk_total_pct"
    /\ errors' = AppendIf(errors, (\E i \in Rows : TotalPctExceeds(annotated_df[i])), MsgTotalPctExceeds)
    /\ pc' = "chk_senior_pct"
    /\ UNCHANGED <<checkFrame, trace>>

ChkSeniorPct ==
    /\ pc = "chk_senior_pct"
    /\ errors' = AppendIf(errors, (\E i \in Rows : SeniorPctExceeds(annotated_df[i])), MsgSeniorPctExceeds)
    /\ pc' = "report"
    /\ UNCHANGED <<checkFrame, trace>>

\* if errors: print them, sys.exit(1); else report success and return
Report ==
    /\ pc = "report"
    /\ pc' = "done"
    /\ exit_code' = IF errors # <<>> THEN 1 ELSE 0
    /\ UNCHANGED <<tracts_df, url, requests, http_status, response, census_df, metrics_df, annotated_df,
                   warning, output_written, output_file, errors, trace, calcVars>>

Next ==
    \/ ReadInput
    \/ ReadInputFails
    \/ FetchEmptyTable
    \/ HttpGetOk
    \/ HttpGetFails
    \/ ParseResponse
    \/ CalculateMetrics
    \/ Merge
    \/ WarnMissing
    \/ ShowSummary
    \/ WriteOutput
    \/ ChkNegative
    \/ ChkTotalExceeds
    \/ ChkSeniorExceeds
    \/ ChkSeniorPop
    \/ ChkTotalPct
    \/ ChkSeniorPct
    \/ Report

Spec == Init /\ [][Next]_vars

----------------------------------------------------------------------------
(* calculate_metrics over bounded raw rows *)

CalcGeoid == <<0, 6, 0, 7, 5, 0, 1, 0, 8, 0, 0>>

NonZeroVals == { Num(n) : n \in 1..MaxVal } \cup { NaN }

\* the sets of variables that are not 0 in a generated row
SparseSupports == { T \in SUBSET Variables : Cardinality(T) <= MaxNonZero }

\* the row that is f on S and 0 elsewhere
SparseRow(S, f) ==
    [GEOID |-> CalcGeoid, vars |-> [c \in Variables |-> IF c \in S THEN f[c] ELSE Num(0)]]

\* the rows of the API cell profiles, typed
ProfileRows ==
    { [GEOID |-> CalcGeoid, vars |-> [c \in Variables |-> to_numeric(cells[c])]]
      : cells \in ApiCells }

\* universe 3, with-condition 2 (one senior), seniors 3: 66.67 and 33.33
ThirdsRow ==
    [GEOID |-> CalcGeoid,
     vars |-> [c \in Variables |->
                 IF c \in {"B18105_001E", "B18105_012E"} THEN Num(3)
                 ELSE IF c \in {"B18105_004E", "B18105_013E"} THEN Num(1)
                 ELSE Num(0)]]

ExtraRows == ProfileRows \cup {ThirdsRow}

InitCalc ==
    /\ calc_pc = "input"
    /\ \/ \E S \in SparseSupports : \E f \in [S -> NonZeroVals] : calc_df = <<SparseRow(S, f)>>
       \/ \E r \in ExtraRows : calc_df = <<r>>
    /\ calc_result = <<>>
    /\ pc = "idle"
    /\ tracts_df = <<>>
    /\ url = <<>>
    /\ requests = 0
    /\ http_status = "none"
    /\ response = <<>>
    /\ census_df = <<>>
    /\ metrics_df = <<>>
    /\ annotated_df = <<>>
    /\ warning = <<>>
    /\ output_written = FALSE
    /\ output_file = <<>>
    /\ errors = <<>>
    /\ exit_code = -1
    /\ trace = <<>>

Calculate ==
    /\ calc_pc = "input"
    /\ calc_result' = calculate_metrics(calc_df)
    /\ calc_pc' = "done"
    /\ UNCHANGED <<calc_df, mainVars>>

NextCalc == Calculate

SpecCalc == InitCalc /\ [][NextCalc]_vars

----------------------------------------------------------------------------
(* Properties of calculate_metrics, checked under SpecCalc *)

CalcIn == calc_df[1]
CalcOut == calc_result[1]
CalcDone == calc_pc = "done"

AllDefined(row) == \A c \in Variables : row.vars[c].k = "num"
AllNonNegative(row) == \A c \in Variables : row.vars[c].v >= 0

\* value of the named variable of a fully defined row
V(row, c) == row.vars[c].v
WithConditionSum(row) ==
    V(row, "B18105_004E") + V(row, "B18105_007E") + V(row, "B18105_010E")
    + V(row, "B18105_013E") + V(row, "B18105_016E") + V(row, "B18105_020E")
    + V(row, "B18105_023E") + V(row, "B18105_026E") + V(row, "B18105_029E")
    + V(row, "B18105_032E")
SeniorSum(row) ==
    V(row, "B18105_012E") + V(row, "B18105_015E") + V(row, "B18105_028E")
    + V(row, "B18105_031E")
SeniorWithConditionSum(row) ==
    V(row, "B18105_013E") + V(row, "B18105_016E") + V(row, "B18105_029E")
    + V(row, "B18105_032E")

AnyNa(row, cols) == \E c \in cols : IsNa(row.vars[c])
WithConditionNames ==
    {"B18105_004E", "B18105_007E", "B18105_010E", "B18105_013E", "B18105_016E",
     "B18105_020E", "B18105_023E", "B18105_026E", "B18105_029E", "B18105_032E"}
SeniorNames == {"B18105_012E", "B18105_015E", "B18105_028E", "B18105_031E"}
SeniorWithConditionNames == {"B18105_013E", "B18105_016E", "B18105_029E", "B18105_032E"}

\* p (hundredths of a percent) is 100 * n / d rounded to 2 decimals, d > 0
IsPctOf(p, n, d) ==
    /\ p.k = "num"
    /\ 2 * (p.v * d - 10000 * n) <= d
    /\ 2 * (10000 * n - p.v * d) <= d

InRange(p) == p.k = "num" /\ 0 <= p.v /\ p.v <= 10000

\* C2: a zero total_eligible_population yields total_with_condition_pct = 0 and a
\* zero senior_population yields senior_with_condition_pct = 0, whatever the
\* numerator is.
C2_ZeroDenominatorYieldsZero ==
    CalcDone =>
        /\ CalcOut.total_pop_5plus = Num(0) => CalcOut.total_amb_diff_pct = Num(0)
        /\ CalcOut.pop_65plus = Num(0) => CalcOut.pop_65plus_amb_diff_pct = Num(0)

\* C3: for a row of defined, non-negative variables with
\* total_with_condition <= total_eligible_population and
\* senior_with_condition <= senior_population, both percentages lie in [0, 100].
C3_PercentagesInRange ==
    ( /\ CalcDone
      /\ AllDefined(CalcIn)
      /\ AllNonNegative(CalcIn)
      /\ WithConditionSum(CalcIn) <= V(CalcIn, "B18105_001E")
      /\ SeniorWithConditionSum(CalcIn) <= SeniorSum(CalcIn) )
    => /\ InRange(CalcOut.total_amb_diff_pct)
       /\ InRange(CalcOut.pop_65plus_amb_diff_pct)

\* a contained row with no seniors (denominator 0) and a total percentage
\* strictly between 0 and 100
C3_Witness ==
    /\ CalcDone
    /\ AllDefined(CalcIn)
    /\ WithConditionSum(CalcIn) <= V(CalcIn, "B18105_001E")
    /\ SeniorWithConditionSum(CalcIn) <= SeniorSum(CalcIn)
    /\ SeniorSum(CalcIn) = 0
    /\ CalcOut.pop_65plus_amb_diff_pct = Num(0)
    /\ CalcOut.total_amb_diff_pct.v > 0
    /\ CalcOut.total_amb_diff_pct.v < 10000

\* C8: for a row of defined variables with both denominators positive the four
\* counts are the universe variable and the three sums, and each percentage is
\* 100 * count / denominator rounded to 2 decimals; universe 1000 with sums 150,
\* 200 and 40 gives 1000, 150, 15.00, 200, 40, 20.00.
C8_AggregatorResult ==
    ( /\ CalcDone
      /\ AllDefined(CalcIn)
      /\ V(CalcIn, "B18105_001E") > 0
      /\ SeniorSum(CalcIn) > 0 )
    => /\ CalcOut.total_pop_5plus = Num(V(CalcIn, "B18105_001E"))
       /\ CalcOut.total_amb_diff = Num(WithConditionSum(CalcIn))
       /\ CalcOut.pop_65plus = Num(SeniorSum(CalcIn))
       /\ CalcOut.pop_65plus_amb_diff = Num(SeniorWithConditionSum(CalcIn))
       /\ IsPctOf(CalcOut.total_amb_diff_pct, WithConditionSum(CalcIn),
                  V(CalcIn, "B18105_001E"))
       /\ IsPctOf(CalcOut.pop_65plus_amb_diff_pct, SeniorWithConditionSum(CalcIn),
                  SeniorSum(CalcIn))
       /\ ( /\ V(CalcIn, "B18105_001E") = 1000
            /\ WithConditionSum(CalcIn) = 150
            /\ SeniorSum(CalcIn) = 200
            /\ SeniorWithConditionSum(CalcIn) = 40 )
          => /\ CalcOut.total_amb_diff_pct = Num(1500)
             /\ CalcOut.pop_65plus_amb_diff_pct = Num(2000)

\* the spec's example row has been aggregated
C8_Witness ==
    /\ CalcDone
    /\ AllDefined(CalcIn)
    /\ V(CalcIn, "B18105_001E") = 1000
    /\ WithConditionSum(CalcIn) = 150
    /\ SeniorSum(CalcIn) = 200
    /\ SeniorWithConditionSum(CalcIn) = 40
    /\ CalcOut.total_amb_diff = Num(150)
    /\ CalcOut.total_amb_diff_pct = Num(1500)

\* C10: a count field is undefined exactly when one of its summands is
\* undefined and otherwise is the sum; a percentage whose numerator or
\* denominator is undefined is 0.
C10_UndefinedPropagation ==
    CalcDone =>
        /\ CalcOut.total_pop_5plus = CalcIn.vars["B18105_001E"]
        /\ CalcOut.total_amb_diff =
             IF AnyNa(CalcIn, WithConditionNames) THEN NaN ELSE Num(WithConditionSum(CalcIn))
        /\ CalcOut.pop_65plus =
             IF AnyNa(CalcIn, SeniorNames) THEN NaN ELSE Num(SeniorSum(CalcIn))
        /\ CalcOut.pop_65plus_amb_diff =
             IF AnyNa(CalcIn, SeniorWithConditionNames) THEN NaN
             ELSE Num(SeniorWithConditionSum(CalcIn))
        /\ AnyNa(CalcIn, WithConditionNames \cup {"B18105_001E"})
             => CalcOut.total_amb_diff_pct = Num(0)
        /\ AnyNa(CalcIn, SeniorNames \cup SeniorWithConditionNames)
             => CalcOut.pop_65plus_amb_diff_pct = Num(0)

\* an undefined senior total: senior_population undefined, its percentage 0,
\* while total_with_condition keeps a positive sum
C10_Witness ==
    /\ CalcDone
    /\ AnyNa(CalcIn, SeniorNames)
    /\ ~AnyNa(CalcIn, WithConditionNames)
    /\ CalcOut.pop_65plus = NaN
    /\ CalcOut.pop_65plus_amb_diff_pct = Num(0)
    /\ CalcOut.total_amb_diff.k = "num"
    /\ CalcOut.total_amb_diff.v > 0

----------------------------------------------------------------------------
(* Properties of main(), checked under Spec *)

Ran(stage) == stage \in Range(trace)
ValidationEnded == pc \in {"report", "done"} /\ Ran("validate")
RunEnded == pc = "done" /\ Ran("validate")

InputPart(r) == [GEOID |-> r.GEOID, NAMELSAD |-> r.NAMELSAD]
MetricsPart(r) ==
    [total_pop_5plus |-> r.total_pop_5plus, total_amb_diff |-> r.total_amb_diff,
     total_amb_diff_pct |-> r.total_amb_diff_pct, pop_65plus |-> r.pop_65plus,
     pop_65plus_amb_diff |-> r.pop_65plus_amb_diff,
     pop_65plus_amb_diff_pct |-> r.pop_65plus_amb_diff_pct]

\* the six sanity rules, stated on the values themselves
Negative(a) == a.k = "ninf" \/ (a.k = "num" /\ a.v < 0)
Over(a, b) ==
    \/ a.k = "inf" /\ b.k \in {"num", "ninf"}
    \/ a.k = "num" /\ b.k = "ninf"
    \/ a.k = "num" /\ b.k = "num" /\ a.v > b.v
Rule1(r) ==
    \/ Negative(r.total_pop_5plus) \/ Negative(r.total_amb_diff)
    \/ Negative(r.pop_65plus) \/ Negative(r.pop_65plus_amb_diff)
Rule2(r) == Over(r.total_amb_diff, r.total_pop_5plus)
Rule3(r) == Over(r.pop_65plus_amb_diff, r.pop_65plus)
Rule4(r) == Over(r.pop_65plus, r.total_pop_5plus)
Rule5(r) == Over(r.total_amb_diff_pct, Num(10000))
Rule6(r) == Over(r.pop_65plus_amb_diff_pct, Num(10000))
PassesAll(r) ==
    ~Rule1(r) /\ ~Rule2(r) /\ ~Rule3(r) /\ ~Rule4(r) /\ ~Rule5(r) /\ ~Rule6(r)

Listed(msg) == msg \in Range(errors)

\* C1: once the merge has run, the annotated table has as many rows as the
\* input table and holds every input Area record exactly as often as the input.
C1_JoinCompleteness ==
    Ran("merge") =>
        /\ Len(annotated_df) = Len(tracts_df)
        /\ \A i \in 1..Len(tracts_df) :
             Cardinality({ j \in 1..Len(annotated_df) : InputPart(annotated_df[j]) = tracts_df[i] })
               = Cardinality({ j \in 1..Len(tracts_df) : tracts_df[j] = tracts_df[i] })

\* C4: a failed request ends the run at once with exit code 1, after exactly
\* one request, and no later stage runs: nothing parsed, computed, merged,
\* validated or written.
C4_NetworkFailureIsFatal ==
    http_status = "error" =>
        /\ pc = "done"
        /\ exit_code = 1
        /\ requests = 1
        /\ trace = <<"read", "query">>
        /\ census_df = <<>>
        /\ metrics_df = <<>>
        /\ annotated_df = <<>>
        /\ errors = <<>>
        /\ ~output_written

\* the request has failed
C4_Witness == http_status = "error" /\ requests = 1 /\ tracts_df # <<>>

StageOrder == <<"read", "query", "parse", "compute", "merge", "validate", "summary", "write">>
StageIndex(stage) == CHOOSE k \in 1..Len(StageOrder) : StageOrder[k] = stage

\* C5: the stages run in the order read, query, parse, compute, merge,
\* validate, summary, write: the summary is printed and the output file is
\* written only after the validation.
C5_PipelineOrder ==
    /\ \A i, j \in 1..Len(trace) : i < j => StageIndex(trace[i]) < StageIndex(trace[j])
    /\ Ran("summary") => Ran("validate")
    /\ output_written => Ran("validate")

\* the case of C6: one row with senior_with_condition 50 and senior_population
\* 40 whose other counts obey the rules, every other row passing all rules
IsSeniorExample(r) == r.pop_65plus_amb_diff = Num(50) /\ r.pop_65plus = Num(40)
SeniorExampleCase ==
    /\ RunEnded
    /\ \E i \in 1..Len(annotated_df) :
         /\ IsSeniorExample(annotated_df[i])
         /\ ~Rule1(annotated_df[i]) /\ ~Rule2(annotated_df[i])
         /\ ~Rule4(annotated_df[i]) /\ ~Rule5(annotated_df[i])
         /\ \A j \in 1..Len(annotated_df) : j # i => PassesAll(annotated_df[j])

\* C6: in that case the error list holds exactly one message, the one saying
\* that 65+ ambulatory difficulty exceeds the 65+ population, and the run exits
\* with a non-zero status.
C6_ExactlyOneError ==
    SeniorExampleCase => errors = <<MsgSeniorDiffExceeds>> /\ exit_code # 0

\* C6 as amended: the error list holds exactly two messages, that message
\* followed by the one saying that the 65+ percentage exceeds 100%, and the
\* run exits with status 1.
C6_ExactlyTwoErrors ==
    SeniorExampleCase =>
        /\ errors = <<MsgSeniorDiffExceeds, MsgSeniorPctExceeds>>
        /\ exit_code = 1

\* a run with the example row and a second, valid row has ended
C6_Witness ==
    /\ SeniorExampleCase
    /\ Len(annotated_df) = 2
    /\ \E i \in 1..Len(annotated_df) :
         PassesAll(annotated_df[i]) /\ annotated_df[i].total_pop_5plus.k = "num"

\* input row i has no row in the Fetcher output
JoinMiss(i) == \A j \in 1..Len(census_df) : census_df[j].GEOID # tracts_df[i].GEOID
AllMatchedPass == \A j \in 1..Len(metrics_df) : PassesAll(metrics_df[j])

\* C7: when an input area has no matching row and every matched row passes
\* the six rules, the warning lists the area, its row stays in the output with
\* the six derived fields null, no error is raised, the file is written and
\* the run exits with status 0.
C7_JoinMissIsNotFatal ==
    RunEnded =>
        \A i \in 1..Len(tracts_df) :
            (JoinMiss(i) /\ AllMatchedPass) =>
                /\ tracts_df[i].GEOID \in Range(warning)
                /\ Cardinality({ j \in 1..Len(annotated_df) :
                                   InputPart(annotated_df[j]) = tracts_df[i] })
                     = Cardinality({ j \in 1..Len(tracts_df) : tracts_df[j] = tracts_df[i] })
                /\ \A j \in 1..Len(annotated_df) :
                     annotated_df[j].GEOID = tracts_df[i].GEOID
                       => MetricsPart(annotated_df[j]) = NullMetrics
                /\ errors = <<>>
                /\ output_written
                /\ output_file = annotated_df
                /\ exit_code = 0

\* a run with one area missed and another matched by a valid row has ended
C7_Witness ==
    /\ RunEnded
    /\ AllMatchedPass
    /\ metrics_df # <<>>
    /\ \E i \in 1..Len(tracts_df) : JoinMiss(i)
    /\ exit_code = 0

\* C9: when validation ends, the error list holds the message of every check
\* that some row violates and of no other check, and the run exits non-zero
\* if and only if the list is not empty (0 otherwise).
C9_ValidationAccumulates ==
    /\ ValidationEnded =>
        /\ Listed(MsgNegTotalPop) <=> \E i \in 1..Len(annotated_df) : Negative(annotated_df[i].total_pop_5plus)
        /\ Listed(MsgNegTotalDiff) <=> \E i \in 1..Len(annotated_df) : Negative(annotated_df[i].total_amb_diff)
        /\ Listed(MsgNegSeniorPop) <=> \E i \in 1..Len(annotated_df) : Negative(annotated_df[i].pop_65plus)
        /\ Listed(MsgNegSeniorDiff) <=> \E i \in 1..Len(annotated_df) : Negative(annotated_df[i].pop_65plus_amb_diff)
        /\ Listed(MsgTotalDiffExceeds) <=> (\E i \in 1..Len(annotated_df) : Rule2(annotated_df[i]))
        /\ Listed(MsgSeniorDiffExceeds) <=> (\E i \in 1..Len(annotated_df) : Rule3(annotated_df[i]))
        /\ Listed(MsgSeniorPopExceeds) <=> (\E i \in 1..Len(annotated_df) : Rule4(annotated_df[i]))
        /\ Listed(MsgTotalPctExceeds) <=> (\E i \in 1..Len(annotated_df) : Rule5(annotated_df[i]))
        /\ Listed(MsgSeniorPctExceeds) <=> (\E i \in 1..Len(annotated_df) : Rule6(annotated_df[i]))
        /\ \A m, n \in 1..Len(errors) : m # n => errors[m] # errors[n]
    /\ RunEnded =>
        /\ exit_code \in {0, 1}
        /\ exit_code = 1 <=> errors # <<>>

\* a run in which two different checks failed has ended with status 1
C9_Witness ==
    /\ RunEnded
    /\ Listed(MsgTotalDiffExceeds)
    /\ Listed(MsgSeniorPctExceeds)
    /\ exit_code = 1

====
